---- MODULE Spec2Model ----
(***************************************************************************)
(* Model of the Maven POM filter plugins of Version-Description-Updater:   *)
(*   src/filter_plugins/pom_filters.py              (the full filter set)  *)
(*   src/roles/pom_reader/filter_plugins/pom_filters.py  (older copy)      *)
(*   src/playbooks/filter_plugins/maven_filters.py       (older copy)      *)
(*                                                                         *)
(* Every filter is a pure function.  A filter call is modelled as a        *)
(* two-state run: Init draws the call (its name and arguments) from        *)
(* bounded sets, one action per filter applies it and stores the result.   *)
(*                                                                         *)
(* A Python str is a sequence of one-character strings; a Python value     *)
(* that may also be None, a number or bytes is a tagged record (Val).      *)
(***************************************************************************)
EXTENDS Integers, Sequences, FiniteSets, TLC

VARIABLES pc, op, args, ret

vars == <<pc, op, args, ret>>

(***************************************************************************)
(* Bounds of the model.                                                    *)
(***************************************************************************)
\* longest run of blanks put before / after a generated string
MaxPad == 1
\* most <plugin> entries under build/pluginManagement/plugins of a document
MaxManaged == 2
\* most <plugin> entries under build/plugins of a document
MaxPlugins == 2
\* most dependency records given to maven_enforce_plan
MaxRows == 2
\* most entries of a raw desired mapping
MaxEntries == 2
\* most matches in a list given to maven_dep_rows
MaxMatches == 2

(***************************************************************************)
(* Python values.                                                          *)
(***************************************************************************)
\* t: the type; s: the characters of a str or bytes; n: the number of an int;
\* items: the (key, value) pairs of a dict, in insertion order
PyNone == [t |-> "none", s |-> <<>>, n |-> 0, items |-> <<>>]
PyStr(s) == [t |-> "str", s |-> s, n |-> 0, items |-> <<>>]
PyBytes(s) == [t |-> "bytes", s |-> s, n |-> 0, items |-> <<>>]
PyInt(n) == [t |-> "int", s |-> <<>>, n |-> n, items |-> <<>>]
PyDict(items) == [t |-> "dict", s |-> <<>>, n |-> 0, items |-> items]
PyList(items) == [t |-> "list", s |-> <<>>, n |-> 0, items |-> items]

\* the result of a call that raised
Raised(kind) == [error |-> kind]
Returned(v) == [value |-> v]

IsSpace(c) == c \in {" ", "\t", "\n"}

LStrip(s) ==
  LET k == CHOOSE k \in 0..Len(s) :
             /\ \A i \in 1..k : IsSpace(s[i])
             /\ (k = Len(s) \/ ~IsSpace(s[k + 1]))
  IN SubSeq(s, k + 1, Len(s))

RStrip(s) ==
  LET k == CHOOSE k \in 0..Len(s) :
             /\ \A i \in (k + 1)..Len(s) : IsSpace(s[i])
             /\ (k = 0 \/ ~IsSpace(s[k]))
  IN SubSeq(s, 1, k)

\* str.strip()
Strip(s) == RStrip(LStrip(s))

\* str.lower() on the characters of the model's alphabet
LowerChar(c) ==
  CASE c = "A" -> "a"
    [] c = "G" -> "g"
    [] c = "B" -> "b"
    [] OTHER -> c

Lower(s) == [i \in 1..Len(s) |-> LowerChar(s[i])]

DigitChar(d) ==
  CASE d = 0 -> "0" [] d = 1 -> "1" [] d = 2 -> "2" [] d = 3 -> "3" [] d = 4 -> "4"
    [] d = 5 -> "5" [] d = 6 -> "6" [] d = 7 -> "7" [] d = 8 -> "8" [] d = 9 -> "9"

RECURSIVE NatToStr(_)
NatToStr(n) == IF n < 10 THEN <<DigitChar(n)>> ELSE NatToStr(n \div 10) \o <<DigitChar(n % 10)>>

\* str(n) for an int
IntToStr(n) == IF n < 0 THEN <<"-">> \o NatToStr(0 - n) ELSE NatToStr(n)

\* bytes.decode("utf-8", errors="replace"): the byte 0xFF is never valid UTF-8
\* and decodes to U+FFFD; ASCII bytes decode to themselves
DecodeChar(b) == IF b = "xFF" THEN "uFFFD" ELSE b
Decode(s) == [i \in 1..Len(s) |-> DecodeChar(s[i])]

\* str(v) of a dict: only the empty dict is ever stringified by the filters
DictToStr(v) == <<"{", "}">>

\* _strip(s) with single trailing / leading blanks removed only
_strip_once(v) ==
  LET s == CASE v.t = "bytes" -> Decode(v.s)
             [] v.t = "none" -> <<>>
             [] v.t = "int" -> IntToStr(v.n)
             [] v.t = "dict" -> DictToStr(v)
             [] OTHER -> v.s
      l == IF s # <<>> /\ IsSpace(Head(s)) THEN Tail(s) ELSE s
  IN IF l # <<>> /\ IsSpace(l[Len(l)]) THEN SubSeq(l, 1, Len(l) - 1) ELSE l

\* _strip(s)
_strip(v) ==
  CASE v.t = "bytes" -> Strip(Decode(v.s))
    [] v.t = "none" -> <<>>
    [] v.t = "int" -> Strip(IntToStr(v.n))
    [] v.t = "dict" -> Strip(DictToStr(v))
    [] OTHER -> Strip(v.s)

(***************************************************************************)
(* ${property.name} references.                                            *)
(***************************************************************************)
SetMin(S) == CHOOSE x \in S : \A y \in S : x <= y

\* the pattern without its ^\s* anchor, searched for: a reference that starts
\* anywhere in s matches
_PROP_RE_search(s) ==
  LET starts == {k \in 0..(Len(s) - 4) : s[k + 1] = "$" /\ s[k + 2] = "{"}
      k == IF starts = {} THEN 0 ELSE SetMin(starts)
      closes == {j \in (k + 3)..Len(s) : s[j] = "}"}
  IN IF /\ starts # {}
        /\ closes # {}
        /\ SetMin(closes) > k + 3
        /\ \A i \in (SetMin(closes) + 1)..Len(s) : IsSpace(s[i])
     THEN [ok |-> TRUE, name |-> SubSeq(s, k + 3, SetMin(closes) - 1)]
     ELSE [ok |-> FALSE, name |-> <<>>]

\* _PROP_RE.match(s): ^\s*\$\{([^}]+)\}\s*$  -- [ok, name (group 1)]
_PROP_RE(s) ==
  LET k == Len(s) - Len(LStrip(s))
      closes == {j \in (k + 3)..Len(s) : s[j] = "}"}
  IN IF /\ Len(s) >= k + 4
        /\ s[k + 1] = "$"
        /\ s[k + 2] = "{"
        /\ closes # {}
        /\ SetMin(closes) > k + 3
        /\ \A i \in (SetMin(closes) + 1)..Len(s) : IsSpace(s[i])
     THEN [ok |-> TRUE, name |-> SubSeq(s, k + 3, SetMin(closes) - 1)]
     ELSE [ok |-> FALSE, name |-> <<>>]

maven_is_property_ref(s) == _PROP_RE(s).ok

maven_prop_name(s) == IF _PROP_RE(s).ok THEN _PROP_RE(s).name ELSE <<>>

\* the older copies: _PROP_RE = ^\$\{([^}]+)\}$ matched against value.strip()
_PROP_RE_old(s) ==
  LET closes == {j \in 3..Len(s) : s[j] = "}"}
  IN IF /\ Len(s) >= 4
        /\ s[1] = "$"
        /\ s[2] = "{"
        /\ closes = {Len(s)}
     THEN [ok |-> TRUE, name |-> SubSeq(s, 3, Len(s) - 1)]
     ELSE [ok |-> FALSE, name |-> <<>>]

prop_name_old(value) ==
  IF value = <<>> THEN <<>>
  ELSE IF _PROP_RE_old(Strip(value)).ok THEN _PROP_RE_old(Strip(value)).name ELSE <<>>

(***************************************************************************)
(* resolve_version                                                         *)
(***************************************************************************)
S_none == <<"n", "o", "n", "e">>
S_explicit == <<"e", "x", "p", "l", "i", "c", "i", "t">>
S_pluginManagement ==
  <<"p", "l", "u", "g", "i", "n", "M", "a", "n", "a", "g", "e", "m", "e", "n", "t">>
S_property == <<"p", "r", "o", "p", "e", "r", "t", "y", ":">>

\* dict.get(key, "")
DictGet(d, key) == IF key \in DOMAIN d THEN d[key] ELSE <<>>

\* the inner _resolve(v, fallback_source) of resolve_version
_resolve(v, fallback_source, props) ==
  LET sv == _strip(v)
      name == maven_prop_name(sv)
  IN IF sv = <<>> THEN <<<<>>, S_none>>
     ELSE IF name # <<>> THEN <<_strip(PyStr(DictGet(props, name))), S_property \o name>>
     ELSE <<sv, fallback_source>>

\* a resolver that stops at a non-empty explicit value, resolved or not
resolve_version_nofallthrough(explicit, managed, props) ==
  LET e == _resolve(explicit, S_explicit, props)
      m == _resolve(managed, S_pluginManagement, props)
  IN IF _strip(explicit) # <<>> THEN e
     ELSE IF m[1] # <<>> THEN m
     ELSE <<<<>>, S_none>>

\* a resolver that passes "explicit" as the fallback source of the managed value
resolve_version_explicit_label(explicit, managed, props) ==
  LET e == _resolve(explicit, S_explicit, props)
      m == _resolve(managed, S_explicit, props)
  IN IF e[1] # <<>> THEN e
     ELSE IF m[1] # <<>> THEN m
     ELSE <<<<>>, S_none>>

\* a resolver that returns the managed outcome as it is, empty or not
resolve_version_keeps_source(explicit, managed, props) ==
  LET e == _resolve(explicit, S_explicit, props)
      m == _resolve(managed, S_pluginManagement, props)
  IN IF e[1] # <<>> THEN e ELSE m

resolve_version(explicit, managed, props) ==
  LET e == _resolve(explicit, S_explicit, props)
      m == _resolve(managed, S_pluginManagement, props)
  IN IF e[1] # <<>> THEN e
     ELSE IF m[1] # <<>> THEN m
     ELSE <<<<>>, S_none>>

\* the copy of the older filter files: (v or "").strip(), prop_name, (props.get(..) or "").strip()
_resolve_old(v, fallback_source, props) ==
  LET sv == IF v.t = "none" THEN <<>> ELSE Strip(v.s)
      name == prop_name_old(sv)
  IN IF sv = <<>> THEN <<<<>>, S_none>>
     ELSE IF name # <<>> THEN <<Strip(DictGet(props, name)), S_property \o name>>
     ELSE <<sv, fallback_source>>

resolve_version_old(explicit, managed, props) ==
  LET e == _resolve_old(explicit, S_explicit, props)
      m == _resolve_old(managed, S_pluginManagement, props)
  IN IF e[1] # <<>> THEN e
     ELSE IF m[1] # <<>> THEN m
     ELSE <<<<>>, S_none>>

(***************************************************************************)
(* XML helpers: xml_texts                                                  *)
(***************************************************************************)
Ord(c) ==
  CASE c = "a" -> 97 [] c = "b" -> 98 [] c = "m" -> 109 [] c = "v" -> 118
    [] c = "{" -> 123 [] c = "}" -> 125 [] OTHER -> 0

\* a < b for two str, as sorted() orders dict keys
RECURSIVE LexLess(_, _)
LexLess(a, b) ==
  IF b = <<>> THEN FALSE
  ELSE IF a = <<>> THEN TRUE
  ELSE IF Head(a) # Head(b) THEN Ord(Head(a)) < Ord(Head(b))
  ELSE LexLess(Tail(a), Tail(b))

\* next(iter(dict(sorted(m.items())).values())): the value of the least key
FirstSortedValue(m) ==
  LET i == CHOOSE i \in 1..Len(m.items) :
             \A j \in 1..Len(m.items) : j = i \/ LexLess(m.items[i][1], m.items[j][1])
  IN m.items[i][2]

XmlText(m) ==
  IF m.t = "dict" /\ m.items # <<>> THEN _strip(FirstSortedValue(m))
  ELSE _strip(IF m.t = "none" THEN PyStr(<<>>) ELSE m)

xml_texts(matches) ==
  IF matches.t = "none" THEN <<>>
  ELSE IF matches.t \in {"str", "bytes"} THEN <<XmlText(matches)>>
  ELSE [i \in 1..Len(matches.items) |-> XmlText(matches.items[i])]

_to_list(matches) == xml_texts(matches)

(***************************************************************************)
(* Dependency helpers: maven_normalize_desired, maven_dep_rows             *)
(***************************************************************************)
\* out[key] = val on a dict kept as its (key, value) pairs in insertion order
DictSet(out, key, val) ==
  IF \E i \in 1..Len(out) : out[i][1] = key
  THEN [i \in 1..Len(out) |-> IF out[i][1] = key THEN <<key, val>> ELSE out[i]]
  ELSE Append(out, <<key, val>>)

RECURSIVE NormalizeLoop_strip1(_, _)
NormalizeLoop_strip1(items, out) ==
  IF items = <<>> THEN out
  ELSE LET k == Head(items)[1]
           v == Head(items)[2]
           key == Lower(_strip_once(k))
           val == _strip_once(v)
       IN NormalizeLoop_strip1(Tail(items),
            IF v.t = "none" \/ key = <<>> \/ val = <<>> THEN out
            ELSE DictSet(out, PyStr(key), PyStr(val)))

\* a normalizer that removes one blank at each end instead of all of them
maven_normalize_desired_strip1(raw) ==
  PyDict(NormalizeLoop_strip1(IF raw.t = "none" THEN <<>> ELSE raw.items, <<>>))

\* for k, v in (raw or {}).items(): ...
RECURSIVE NormalizeLoop(_, _)
NormalizeLoop(items, out) ==
  IF items = <<>> THEN out
  ELSE LET k == Head(items)[1]
           v == Head(items)[2]
           key == Lower(_strip(k))
           val == _strip(v)
       IN NormalizeLoop(Tail(items),
            IF v.t = "none" \/ key = <<>> \/ val = <<>> THEN out
            ELSE DictSet(out, PyStr(key), PyStr(val)))

maven_normalize_desired(raw) ==
  PyDict(NormalizeLoop(IF raw.t = "none" THEN <<>> ELSE raw.items, <<>>))

\* dict == dict: the same keys with the same values, whatever the order
DictEq(a, b) ==
  {a.items[i] : i \in 1..Len(a.items)} = {b.items[i] : i \in 1..Len(b.items)}

DepRow(g, a, v) == [groupId |-> g, artifactId |-> a, version |-> v]

SeqMin(a, b) == IF a < b THEN a ELSE b

\* a maven_dep_rows that zips the three lists up to the shortest
maven_dep_rows_zip(artifact_ids, group_ids, versions) ==
  LET arts == _to_list(artifact_ids)
      grps == _to_list(group_ids)
      vers == _to_list(versions)
  IN Returned([i \in 1..SeqMin(Len(arts), SeqMin(Len(grps), Len(vers)))
                 |-> DepRow(grps[i], arts[i], vers[i])])

maven_dep_rows(artifact_ids, group_ids, versions) ==
  LET arts == _to_list(artifact_ids)
      grps == _to_list(group_ids)
      vers == _to_list(versions)
  IN IF ~(Len(arts) = Len(grps) /\ Len(grps) = Len(vers))
     THEN Raised("ValueError")
     ELSE Returned([i \in 1..Len(arts) |-> DepRow(grps[i], arts[i], vers[i])])

(***************************************************************************)
(* Dependency helpers: maven_enforce_plan                                  *)
(***************************************************************************)
S_literal == <<"l", "i", "t", "e", "r", "a", "l">>
S_all == <<"a", "l", "l">>

\* _lookup_keys(row): 'groupId:artifactId' then 'artifactId', lowercased
_lookup_keys_reversed(row) ==
  LET gid == Lower(_strip(PyStr(row.groupId)))
      aid == Lower(_strip(PyStr(row.artifactId)))
  IN (IF aid # <<>> THEN <<aid>> ELSE <<>>)
     \o (IF gid # <<>> /\ aid # <<>> THEN <<gid \o <<":">> \o aid>> ELSE <<>>)

_lookup_keys(row) ==
  LET gid == Lower(_strip(PyStr(row.groupId)))
      aid == Lower(_strip(PyStr(row.artifactId)))
  IN (IF gid # <<>> /\ aid # <<>> THEN <<gid \o <<":">> \o aid>> ELSE <<>>)
     \o (IF aid # <<>> THEN <<aid>> ELSE <<>>)

\* desired_ver = ""; for k in keys: if k in desired: desired_ver = _strip(desired[k]); break
DesiredVer(keys, desired) ==
  LET hits == {i \in 1..Len(keys) : keys[i] \in DOMAIN desired}
  IN IF hits = {} THEN <<>> ELSE _strip(PyStr(desired[keys[SetMin(hits)]]))

PlanItem(r, cur, desired_ver) ==
  [groupId |-> r.groupId, artifactId |-> r.artifactId, current |-> cur, desired |-> desired_ver]

\* one pass of the loop body of maven_enforce_plan: what record r appends to the plan
PlanStep_noskip(r, desired, mode) ==
  LET cur == _strip(PyStr(r.version))
      desired_ver == DesiredVer(_lookup_keys(r), desired)
  IN IF desired_ver = <<>> THEN <<>>
     ELSE IF cur # desired_ver THEN <<PlanItem(r, cur, desired_ver)>>
     ELSE <<>>

PlanStep_keepempty(r, desired, mode) ==
  LET cur == _strip(PyStr(r.version))
      desired_ver == DesiredVer(_lookup_keys(r), desired)
  IN IF mode = S_literal /\ maven_is_property_ref(cur) THEN <<>>
     ELSE IF \A i \in 1..Len(_lookup_keys(r)) : _lookup_keys(r)[i] \notin DOMAIN desired THEN <<>>
     ELSE IF cur # desired_ver THEN <<PlanItem(r, cur, desired_ver)>>
     ELSE <<>>

PlanStep(r, desired, mode) ==
  LET cur == _strip(PyStr(r.version))
      desired_ver == DesiredVer(_lookup_keys(r), desired)
  IN IF mode = S_literal /\ maven_is_property_ref(cur) THEN <<>>
     ELSE IF desired_ver = <<>> THEN <<>>
     ELSE IF cur # desired_ver THEN <<PlanItem(r, cur, desired_ver)>>
     ELSE <<>>

\* for r in rows: plan.append(...)
RECURSIVE PlanLoop(_, _, _)
PlanLoop(rows, desired, mode) ==
  IF rows = <<>> THEN <<>>
  ELSE PlanStep(Head(rows), desired, mode) \o PlanLoop(Tail(rows), desired, mode)

RECURSIVE Dedup(_)
Dedup(s) ==
  IF s = <<>> THEN <<>>
  ELSE LET d == Dedup(SubSeq(s, 1, Len(s) - 1))
       IN IF \E i \in 1..Len(d) : d[i] = s[Len(s)] THEN d ELSE Append(d, s[Len(s)])

\* a planner that merges equal plan items
maven_enforce_plan_merging(rows, desired, mode) ==
  IF mode \notin {S_literal, S_all} THEN Raised("ValueError")
  ELSE Returned(Dedup(PlanLoop(rows, desired, mode)))

maven_enforce_plan(rows, desired, mode) ==
  IF mode \notin {S_literal, S_all} THEN Raised("ValueError")
  ELSE Returned(PlanLoop(rows, desired, mode))

\* isinstance(v, (str, int, float)), of the values the model has
IsScalar(v) == v.t \in {"str", "int"}

\* the artifact-only key looked up before the composite one
maven_desired_version_artifact_first(app_map, group_id, artifact_id) ==
  LET gid == Lower(_strip(PyStr(group_id)))
      aid == Lower(_strip(PyStr(artifact_id)))
      v1 == PyStr(DictGet(app_map, aid))
      v2 == PyStr(DictGet(app_map, gid \o <<":">> \o aid))
  IN IF IsScalar(v1) /\ _strip(v1) # <<>> THEN _strip(v1)
     ELSE IF gid # <<>> /\ aid # <<>> /\ IsScalar(v2) THEN _strip(v2)
     ELSE <<>>

\* prefer 'groupId:artifactId' (lowercased) when its value is non-empty after
\* trimming, else the value of 'artifactId'
maven_desired_version(app_map, group_id, artifact_id) ==
  LET gid == Lower(_strip(PyStr(group_id)))
      aid == Lower(_strip(PyStr(artifact_id)))
      v1 == PyStr(DictGet(app_map, gid \o <<":">> \o aid))
      v2 == PyStr(DictGet(app_map, aid))
  IN IF gid # <<>> /\ aid # <<>> /\ IsScalar(v1) /\ _strip(v1) # <<>> THEN _strip(v1)
     ELSE IF IsScalar(v2) THEN _strip(v2)
     ELSE <<>>

(***************************************************************************)
(* Parsed POM documents: an element is [tag, text, kids]; text is None for *)
(* an element without text.                                                *)
(***************************************************************************)
El(tag, text, kids) == [tag |-> tag, text |-> text, kids |-> kids]

T_project == <<"p", "r", "o", "j", "e", "c", "t">>
T_build == <<"b", "u", "i", "l", "d">>
T_pluginManagement == S_pluginManagement
T_plugins == <<"p", "l", "u", "g", "i", "n", "s">>
T_plugin == <<"p", "l", "u", "g", "i", "n">>
T_dependencies == <<"d", "e", "p", "e", "n", "d", "e", "n", "c", "i", "e", "s">>
T_dependency == <<"d", "e", "p", "e", "n", "d", "e", "n", "c", "y">>
T_artifactId == <<"a", "r", "t", "i", "f", "a", "c", "t", "I", "d">>
T_version == <<"v", "e", "r", "s", "i", "o", "n">>

\* _nsless(tag): tag.split("}", 1)[1] if "}" in tag else tag
_nsless(tag) ==
  LET closes == {j \in 1..Len(tag) : tag[j] = "}"}
  IN IF closes # {} THEN SubSeq(tag, SetMin(closes) + 1, Len(tag)) ELSE tag

\* _text(el) for an element that is there
_text(el) == _strip(el.text)

_children_by_local(el, name) == SelectSeq(el.kids, LAMBDA c : _nsless(c.tag) = name)

_first_child_text(el, name) ==
  LET hits == _children_by_local(el, name)
  IN IF hits # <<>> THEN _text(hits[1]) ELSE <<>>

_iter_section(root, section) == SelectSeq(root.kids, LAMBDA c : _nsless(c.tag) = section)

\* for e in els: for c in _children_by_local(e, name): yield c
RECURSIVE ChildrenOfAll(_, _)
ChildrenOfAll(els, name) ==
  IF els = <<>> THEN <<>>
  ELSE _children_by_local(Head(els), name) \o ChildrenOfAll(Tail(els), name)

\* out[aid] = ver for each plugin with both, in order
RECURSIVE ManagedFold(_, _)
ManagedFold(ps, out) ==
  IF ps = <<>> THEN out
  ELSE LET aid == _first_child_text(Head(ps), T_artifactId)
           ver == _first_child_text(Head(ps), T_version)
       IN ManagedFold(Tail(ps),
            IF aid # <<>> /\ ver # <<>>
            THEN [k \in DOMAIN out \cup {aid} |-> IF k = aid THEN ver ELSE out[k]]
            ELSE out)

_managed_plugin_versions(root) ==
  ManagedFold(
    ChildrenOfAll(ChildrenOfAll(ChildrenOfAll(_iter_section(root, T_build),
      T_pluginManagement), T_plugins), T_plugin),
    <<>>)

_iter_plugins(root) ==
  ChildrenOfAll(ChildrenOfAll(_iter_section(root, T_build), T_plugins), T_plugin)

\* src if eff else "none"
SourceOf(r) == IF r[1] # <<>> THEN r[2] ELSE S_none

PluginRecord(p, managed, props) ==
  LET aid == _first_child_text(p, T_artifactId)
      explicit == _first_child_text(p, T_version)
      r == resolve_version(PyStr(explicit), PyStr(DictGet(managed, aid)), props)
  IN [artifactId |-> aid, version |-> r[1], source |-> SourceOf(r)]

maven_plugins(root, props) ==
  LET managed == _managed_plugin_versions(root)
      ps == _iter_plugins(root)
  IN [i \in 1..Len(ps) |-> PluginRecord(ps[i], managed, props)]

PluginDepRecord(plugin_aid, d, props) ==
  LET r == resolve_version(PyStr(_first_child_text(d, T_version)), PyStr(<<>>), props)
  IN [plugin |-> plugin_aid,
      artifactId |-> _first_child_text(d, T_artifactId),
      version |-> r[1],
      source |-> SourceOf(r)]

\* the records of one plugin: none without a <dependencies> child, else one for
\* each <dependency> of the first <dependencies>
PluginDeps(p, props) ==
  LET parents == _children_by_local(p, T_dependencies)
      ds == IF parents = <<>> THEN <<>> ELSE _children_by_local(parents[1], T_dependency)
  IN [i \in 1..Len(ds) |-> PluginDepRecord(_first_child_text(p, T_artifactId), ds[i], props)]

RECURSIVE PluginDepsOfAll(_, _)
PluginDepsOfAll(ps, props) ==
  IF ps = <<>> THEN <<>>
  ELSE PluginDeps(Head(ps), props) \o PluginDepsOfAll(Tail(ps), props)

maven_plugin_deps(root, props) == PluginDepsOfAll(_iter_plugins(root), props)

(***************************************************************************)
(* The copy in src/playbooks/filter_plugins/maven_filters.py               *)
(***************************************************************************)
\* _text(el): (el.text or "").strip()
_text_playbooks(el) == IF el.text.t = "none" THEN <<>> ELSE Strip(el.text.s)

\* _text(_child_by_local(el, name)): the first child of that local name, "" without
_child_text_playbooks(el, name) ==
  LET hits == {i \in 1..Len(el.kids) : _nsless(el.kids[i].tag) = name}
  IN IF hits = {} THEN <<>> ELSE _text_playbooks(el.kids[SetMin(hits)])

\* children of <build> named plugins, then their children named plugin
_iter_plugins_playbooks(root) ==
  ChildrenOfAll(ChildrenOfAll(SelectSeq(root.kids, LAMBDA c : _nsless(c.tag) = T_build),
                              T_plugins), T_plugin)

\* resolve_version(explicit, managed="", props=props)
PluginRecord_playbooks(p, props) ==
  LET r == resolve_version_old(PyStr(_child_text_playbooks(p, T_version)), PyStr(<<>>), props)
  IN [artifactId |-> _child_text_playbooks(p, T_artifactId),
      version |-> r[1],
      source |-> SourceOf(r)]

maven_plugins_playbooks(root, props) ==
  LET ps == _iter_plugins_playbooks(root)
  IN [i \in 1..Len(ps) |-> PluginRecord_playbooks(ps[i], props)]

(***************************************************************************)
(* Inputs of the resolver calls.                                           *)
(***************************************************************************)
Blanks(k) == [i \in 1..k |-> " "]
Pads == {Blanks(k) : k \in 0..MaxPad}
Padded(cores) == {l \o c \o r : l \in Pads, c \in cores, r \in Pads}

N_x == <<"x">>
N_y == <<"a", ".", "b">>
Ref(name) == <<"$", "{">> \o name \o <<"}">>

ExplicitCores ==
  { <<>>, <<"1", ".", "2">>, S_none, Ref(N_x), Ref(N_y),
    <<"$", "{", "}">>, <<"$", "{", "x">>, <<"v", "$", "{", "x", "}">>,
    <<"$", "{", "x", "}", "}">>, <<"$", "{", " ", "}">> }

ManagedCores == { <<>>, <<"1", ".", "0">>, Ref(N_x), Ref(N_y), <<"$", "{", "x">> }

ExplicitVals == {PyNone} \cup {PyStr(s) : s \in Padded(ExplicitCores) \cup {<<"\t", "3", "\n">>}}
ManagedVals == {PyNone} \cup {PyStr(s) : s \in Padded(ManagedCores)}

\* property tables: x absent, empty, blank or set; a.b absent or set
PropTables ==
  LET xs == { <<>>, <<" ">>, <<"2", ".", "0">>, <<" ", "2", ".", "0", " ">> }
      ys == { <<"3">> }
  IN {<<>>}
     \cup {(N_x :> vx) : vx \in xs}
     \cup {(N_y :> vy) : vy \in ys}
     \cup {(N_x :> vx) @@ (N_y :> vy) : vx \in xs, vy \in ys}
     \cup {(<<" ">> :> <<"9">>)}

ResolveArgs ==
  [explicit : ExplicitVals, managed : ManagedVals, props : PropTables]

ResolveOps == {"resolve_version", "resolve_version@roles", "resolve_version@playbooks"}

InitResolveVersion ==
  /\ pc = "call"
  /\ op \in ResolveOps
  /\ args \in ResolveArgs
  /\ ret = <<>>

InitPropertyRef ==
  /\ pc = "call"
  /\ op \in {"maven_is_property_ref", "maven_prop_name"}
  /\ args \in [s : Padded(ExplicitCores) \cup {<<"\t", "3", "\n">>}]
  /\ ret = <<>>

\* src/filter_plugins/pom_filters.py resolve_version
ResolveVersion ==
  /\ pc = "call" /\ op = "resolve_version"
  /\ ret' = resolve_version(args.explicit, args.managed, args.props)
  /\ pc' = "done"
  /\ UNCHANGED <<op, args>>

\* src/roles/pom_reader/filter_plugins/pom_filters.py resolve_version
ResolveVersionRoles ==
  /\ pc = "call" /\ op = "resolve_version@roles"
  /\ ret' = resolve_version_old(args.explicit, args.managed, args.props)
  /\ pc' = "done"
  /\ UNCHANGED <<op, args>>

\* src/playbooks/filter_plugins/maven_filters.py resolve_version
ResolveVersionPlaybooks ==
  /\ pc = "call" /\ op = "resolve_version@playbooks"
  /\ ret' = resolve_version_old(args.explicit, args.managed, args.props)
  /\ pc' = "done"
  /\ UNCHANGED <<op, args>>

MavenIsPropertyRef ==
  /\ pc = "call" /\ op = "maven_is_property_ref"
  /\ ret' = maven_is_property_ref(args.s)
  /\ pc' = "done"
  /\ UNCHANGED <<op, args>>

MavenPropName ==
  /\ pc = "call" /\ op = "maven_prop_name"
  /\ ret' = maven_prop_name(args.s)
  /\ pc' = "done"
  /\ UNCHANGED <<op, args>>

(***************************************************************************)
(* Documents given to maven_plugins and maven_plugin_deps.                 *)
(***************************************************************************)
SeqsUpTo(S, n) == UNION {[1..k -> S] : k \in 0..n}

Leaf(ns, tag, s) == El(ns \o tag, PyStr(s), <<>>)

\* <plugin>: aid / ver are PyNone when the child element is missing
PluginEl(ns, aid, ver, deps) ==
  El(ns \o T_plugin, PyStr(<<"\n", " ">>),
     (IF aid.t = "none" THEN <<>> ELSE <<Leaf(ns, T_artifactId, aid.s)>>)
     \o (IF ver.t = "none" THEN <<>> ELSE <<Leaf(ns, T_version, ver.s)>>)
     \o deps)

DepEl(ns, aid, ver) == [PluginEl(ns, aid, ver, <<>>) EXCEPT !.tag = ns \o T_dependency]

Deps(ns, ds) == <<El(ns \o T_dependencies, PyNone, ds)>>

A_a == <<"a">>
A_b == <<"m", "-", "b">>
V_1 == <<"1", ".", "0">>
V_2 == <<" ", "2", " ">>
V_351 == <<"3", ".", "5", ".", "1">>

ManagedEntries(ns) ==
  { PluginEl(ns, PyStr(A_a), PyStr(V_1), <<>>),
    PluginEl(ns, PyStr(A_a), PyStr(Ref(N_x)), <<>>),
    PluginEl(ns, PyStr(A_b), PyStr(V_2), <<>>) }

PluginEntries(ns) ==
  { PluginEl(ns, PyStr(A_a), PyNone, <<>>),
    PluginEl(ns, PyStr(A_a), PyStr(V_351), <<>>),
    PluginEl(ns, PyStr(A_a), PyStr(Ref(N_x)),
             Deps(ns, <<DepEl(ns, PyStr(A_b), PyStr(Ref(N_x)))>>)),
    PluginEl(ns, PyStr(A_b), PyNone,
             Deps(ns, <<DepEl(ns, PyStr(A_a), PyStr(V_1)), DepEl(ns, PyStr(A_b), PyNone)>>)
             \o Deps(ns, <<DepEl(ns, PyStr(A_a), PyStr(V_2))>>)),
    PluginEl(ns, PyNone, PyStr(<<" ">>), Deps(ns, <<>>)),
    PluginEl(ns, PyStr(A_b), PyStr(Ref(N_y)), <<>>) }

\* <project><build><pluginManagement><plugins>..</plugins></pluginManagement>
\*                 <plugins>..</plugins></build></project>
Document(ns, managed, plugins) ==
  El(ns \o T_project, PyNone,
     << Leaf(ns, T_artifactId, <<"a", "p", "p">>),
        El(ns \o T_build, PyNone,
           << El(ns \o T_pluginManagement, PyNone, <<El(ns \o T_plugins, PyNone, managed)>>),
              El(ns \o T_plugins, PyNone, plugins) >>) >>)

Namespaces == { <<>>, <<"{", "m", "}">> }

DocProps == { <<>>, (N_x :> <<"2", ".", "0">>), (N_x :> <<>>) }

InitPlugins ==
  /\ pc = "call"
  /\ op \in {"maven_plugins", "maven_plugin_deps"}
  /\ \E ns \in Namespaces :
       \E m \in SeqsUpTo(ManagedEntries(ns), MaxManaged) :
         \E ps \in SeqsUpTo(PluginEntries(ns), MaxPlugins) :
           \E props \in DocProps :
             args = [pom_xml |-> Document(ns, m, ps), props |-> props]
  /\ ret = <<>>

MavenPlugins ==
  /\ pc = "call" /\ op = "maven_plugins"
  /\ ret' = maven_plugins(args.pom_xml, args.props)
  /\ pc' = "done"
  /\ UNCHANGED <<op, args>>

MavenPluginDeps ==
  /\ pc = "call" /\ op = "maven_plugin_deps"
  /\ ret' = maven_plugin_deps(args.pom_xml, args.props)
  /\ pc' = "done"
  /\ UNCHANGED <<op, args>>

InitResolve == InitResolveVersion \/ InitPropertyRef \/ InitPlugins

NextResolve ==
  \/ ResolveVersion
  \/ ResolveVersionRoles
  \/ ResolveVersionPlaybooks
  \/ MavenIsPropertyRef
  \/ MavenPropName
  \/ MavenPlugins
  \/ MavenPluginDeps

SpecResolve == InitResolve /\ [][NextResolve]_vars

(***************************************************************************)
(* Claims about the version resolver.                                      *)
(***************************************************************************)
S_managed == <<"m", "a", "n", "a", "g", "e", "d">>

\* a string of the form ${name}, blanks around it aside: "${", a non-empty
\* name without "}", then "}"
IsRefForm(s) ==
  LET t == Strip(s)
  IN /\ Len(t) >= 4
     /\ t[1] = "$" /\ t[2] = "{" /\ t[Len(t)] = "}"
     /\ \A i \in 3..(Len(t) - 1) : t[i] # "}"

RefFormName(s) == SubSeq(Strip(s), 3, Len(Strip(s)) - 1)

ResolveDone == pc = "done" /\ op \in ResolveOps

ExplicitIsRef == args.explicit.t = "str" /\ IsRefForm(args.explicit.s)

\* trim(p.get(name, ""))
PropValue(p, name) == Strip(DictGet(p, name))

\* what the managed value alone resolves to
ManagedOutcome(m, p) ==
  IF m.t = "none" \/ Strip(m.s) = <<>> THEN <<<<>>, S_none>>
  ELSE IF IsRefForm(m.s)
       THEN IF PropValue(p, RefFormName(m.s)) # <<>>
            THEN <<PropValue(p, RefFormName(m.s)), S_property \o RefFormName(m.s)>>
            ELSE <<<<>>, S_none>>
       ELSE <<Strip(m.s), S_pluginManagement>>

\* C1 (as claimed): an explicit "${name}" always resolves to
\* (trim(p.get(name, "")), "property:name"), also when that value is empty,
\* and never falls through to the managed value.
C1_AsClaimed ==
  (ResolveDone /\ ExplicitIsRef) =>
    ret = << PropValue(args.props, RefFormName(args.explicit.s)),
             S_property \o RefFormName(args.explicit.s) >>

\* C1 (amended): an explicit "${name}" resolves to (trim(p[name]), "property:name")
\* whatever the managed value is, provided that property value is non-empty after
\* trimming; when the property is absent or empty, resolution falls through and
\* the result is what the managed value alone resolves to, ("", "none") if nothing.
C1_ExplicitPropertyRef ==
  (ResolveDone /\ ExplicitIsRef) =>
    IF PropValue(args.props, RefFormName(args.explicit.s)) # <<>>
    THEN ret = << PropValue(args.props, RefFormName(args.explicit.s)),
                  S_property \o RefFormName(args.explicit.s) >>
    ELSE ret = ManagedOutcome(args.managed, args.props)

\* an explicit ${x} whose property is empty, with a literal managed version:
\* the managed version is returned
C1_Witness ==
  /\ ResolveDone
  /\ args.explicit = PyStr(Ref(N_x))
  /\ N_x \in DOMAIN args.props /\ args.props[N_x] = <<>>
  /\ args.managed = PyStr(<<"1", ".", "0">>)
  /\ ret = << <<"1", ".", "0">>, S_pluginManagement >>

ExplicitAbsent == args.explicit \in {PyNone, PyStr(<<>>)}

\* managed is non-empty (once trimmed, as the resolver reads it) and no reference
ManagedIsLiteral ==
  args.managed.t = "str" /\ Strip(args.managed.s) # <<>> /\ ~IsRefForm(args.managed.s)

\* C2 (as claimed): with explicit empty or absent and managed a non-empty string
\* that is no property reference, the result is (trim(managed), "managed").
C2_AsClaimed ==
  (ResolveDone /\ ExplicitAbsent /\ ManagedIsLiteral) =>
    ret = <<Strip(args.managed.s), S_managed>>

\* C2 (amended): with explicit empty or absent and managed a non-empty string
\* that is no property reference, the result is (trim(managed), "pluginManagement").
C2_ManagedFallback ==
  (ResolveDone /\ ExplicitAbsent /\ ManagedIsLiteral) =>
    ret = <<Strip(args.managed.s), S_pluginManagement>>

\* resolve(None, " 1.0", {}) was called and gave ("1.0", "pluginManagement")
C2_Witness ==
  /\ ResolveDone
  /\ args.explicit = PyNone
  /\ args.managed = PyStr(<<" ", "1", ".", "0">>)
  /\ args.props = <<>>
  /\ ret = << <<"1", ".", "0">>, S_pluginManagement >>

\* C3: a non-blank explicit value that is not of the form ${...} is no property
\* reference, and resolves to (trim(v), "explicit") whatever managed and the
\* property table are.
C3_ExplicitLiteralWins ==
  /\ (/\ pc = "done" /\ op = "maven_is_property_ref"
      /\ Strip(args.s) # <<>> /\ ~IsRefForm(args.s)) => ret = FALSE
  /\ (/\ ResolveDone
      /\ args.explicit.t = "str"
      /\ Strip(args.explicit.s) # <<>> /\ ~IsRefForm(args.explicit.s))
       => ret = <<Strip(args.explicit.s), S_explicit>>

\* a literal explicit version that contains ${x} won over a managed version
C3_Witness ==
  /\ ResolveDone
  /\ args.explicit = PyStr(<<" ", "v", "$", "{", "x", "}">>)
  /\ args.managed = PyStr(<<"1", ".", "0">>)
  /\ N_x \in DOMAIN args.props /\ args.props[N_x] = <<"2", ".", "0">>
  /\ ret = << <<"v", "$", "{", "x", "}">>, S_explicit >>

\* C4: the result of resolve_version, and every record of maven_plugins and
\* maven_plugin_deps, has source "none" exactly when its effective version is
\* the empty string.
C4_NoneIffEmpty ==
  /\ ResolveDone => (ret[2] = S_none <=> ret[1] = <<>>)
  /\ (pc = "done" /\ op \in {"maven_plugins", "maven_plugin_deps"}) =>
       \A i \in 1..Len(ret) : (ret[i].source = S_none <=> ret[i].version = <<>>)

\* maven_plugins gave a record with an unresolved ${x} version and no managed
\* entry (source "none"), then one that took its managed version
C4_Witness ==
  /\ pc = "done" /\ op = "maven_plugins" /\ Len(ret) = 2
  /\ args.props = <<>>
  /\ ret[1].version = <<>> /\ ret[1].source = S_none
  /\ ret[2].version # <<>> /\ ret[2].source = S_pluginManagement

(***************************************************************************)
(* Calls of maven_enforce_plan.                                            *)
(***************************************************************************)
Row(g, a, v) == [groupId |-> g, artifactId |-> a, version |-> v]

PlanRows ==
  { Row(<<"G">>, <<"a">>, <<"1">>),
    Row(<<>>, <<"a">>, <<"1">>),
    Row(<<"g">>, <<"a">>, <<" ", "2", " ">>),
    Row(<<"g">>, <<"a">>, Ref(N_x)),
    Row(<<" ", "g">>, <<"A", " ">>, <<" ">> \o Ref(N_x) \o <<" ">>),
    Row(<<"g">>, <<"b">>, <<"1">>),
    Row(<<"g">>, <<>>, <<"1">>),
    Row(<<"g">>, <<"a">>, <<>>) }

K_ga == <<"g", ":", "a">>
K_a == <<"a">>
K_b == <<"b">>

DesiredTables ==
  { <<>>,
    (K_a :> <<"1">>),
    (K_a :> <<"2">>),
    (K_ga :> <<"2">>) @@ (K_a :> <<"1">>),
    (K_ga :> <<"1">>) @@ (K_a :> <<"2">>),
    (K_ga :> <<>>) @@ (K_a :> <<"2">>),
    (K_ga :> <<" ", "2", " ">>),
    (K_b :> <<"2">>) @@ (<<"A">> :> <<"2">>),
    (K_a :> Ref(N_x)) @@ (K_b :> <<" ">>),
    (K_ga :> Ref(N_y)) @@ (K_b :> <<"1">>) }

Modes == {S_literal, S_all, <<"s", "t", "r", "i", "c", "t">>}

InitPlan ==
  /\ pc = "call"
  /\ op = "maven_enforce_plan"
  /\ args \in [rows : SeqsUpTo(PlanRows, MaxRows), desired : DesiredTables, mode : Modes]
  /\ ret = <<>>

MavenEnforcePlan ==
  /\ pc = "call" /\ op = "maven_enforce_plan"
  /\ ret' = maven_enforce_plan(args.rows, args.desired, args.mode)
  /\ pc' = "done"
  /\ UNCHANGED <<op, args>>

NextPlan == MavenEnforcePlan

SpecPlan == InitPlan /\ [][NextPlan]_vars

(***************************************************************************)
(* Claims about the enforcement planner.                                   *)
(***************************************************************************)
PlanDone == pc = "done" /\ op = "maven_enforce_plan" /\ args.mode \in {S_literal, S_all}

\* a record's lookup keys, as the claims name them
CompositeKey(r) == Lower(Strip(r.groupId)) \o <<":">> \o Lower(Strip(r.artifactId))
ArtifactKey(r) == Lower(Strip(r.artifactId))
HasComposite(r) == Strip(r.groupId) # <<>> /\ Strip(r.artifactId) # <<>>
KeysOf(r) ==
  (IF HasComposite(r) THEN {CompositeKey(r)} ELSE {})
  \cup (IF Strip(r.artifactId) # <<>> THEN {ArtifactKey(r)} ELSE {})

ModeAllows(r, mode) == mode = S_all \/ ~IsRefForm(r.version)

\* the key that decides: the composite key when the table has it, else the
\* artifact-only key
DecidingKey(r, d) ==
  IF HasComposite(r) /\ CompositeKey(r) \in DOMAIN d THEN CompositeKey(r) ELSE ArtifactKey(r)

Identity(x) == <<x.groupId, x.artifactId>>
MapSeq(s, F(_)) == [i \in 1..Len(s) |-> F(s[i])]

EmitsAsClaimed(r, d, mode) ==
  /\ ModeAllows(r, mode)
  /\ \E k \in KeysOf(r) : k \in DOMAIN d /\ Strip(d[k]) # Strip(r.version)

\* a desired table as maven_normalize_desired builds it: lower-case trimmed
\* keys, trimmed non-empty values
IsNormalizedTable(d) ==
  \A k \in DOMAIN d : k = Lower(Strip(k)) /\ k # <<>> /\ d[k] = Strip(d[k]) /\ d[k] # <<>>

\* C5 (as claimed): a record gets a plan item iff the mode allows it and one of
\* its lookup keys is in the desired table with a value other than its
\* (trimmed) current version.  Stated for normalized desired tables only.
C5_AsClaimed ==
  (PlanDone /\ IsNormalizedTable(args.desired)) =>
    MapSeq(ret.value, Identity)
      = MapSeq(SelectSeq(args.rows, LAMBDA r : EmitsAsClaimed(r, args.desired, args.mode)),
               Identity)

Emits(r, d, mode) ==
  /\ ModeAllows(r, mode)
  /\ KeysOf(r) \cap DOMAIN d # {}
  /\ Strip(d[DecidingKey(r, d)]) # <<>>
  /\ Strip(d[DecidingKey(r, d)]) # Strip(r.version)

\* C5 (amended): a record gets a plan item iff the mode allows it and the first
\* of its lookup keys found in the desired table (composite before
\* artifact-only) has a value that is non-empty after trimming and differs from
\* the record's trimmed current version.
C5_PlanCompleteness ==
  PlanDone =>
    MapSeq(ret.value, LAMBDA x : <<x.groupId, x.artifactId, x.current>>)
      = MapSeq(SelectSeq(args.rows, LAMBDA r : Emits(r, args.desired, args.mode)),
               LAMBDA r : <<r.groupId, r.artifactId, Strip(r.version)>>)

\* two records planned against a table that has an empty composite entry and
\* an artifact-only entry: only the record without groupId gets an item
C5_Witness ==
  /\ PlanDone
  /\ args.rows = << Row(<<"G">>, <<"a">>, <<"1">>), Row(<<>>, <<"a">>, <<"1">>) >>
  /\ args.desired = (K_ga :> <<>>) @@ (K_a :> <<"2">>)
  /\ Len(ret.value) = 1 /\ ret.value[1].groupId = <<>>

\* C6: when the composite key of a record is in the desired table its entry
\* alone decides (the artifact-only entry is not consulted); the artifact-only
\* entry decides only when the composite key is absent.  So the desired
\* versions of the plan are those of the deciding entries, in record order.
C6_CompositeKeyWins ==
  PlanDone =>
    LET emitted == SelectSeq(args.rows, LAMBDA r :
                     /\ ModeAllows(r, args.mode)
                     /\ KeysOf(r) \cap DOMAIN args.desired # {}
                     /\ Strip(args.desired[DecidingKey(r, args.desired)])
                          \notin {<<>>, Strip(r.version)})
    IN MapSeq(ret.value, LAMBDA x : x.desired)
         = MapSeq(emitted, LAMBDA r : Strip(args.desired[DecidingKey(r, args.desired)]))

\* the record G:a at version 1 against {"g:a": "2", "a": "1"}: desired is 2
C6_Witness ==
  /\ PlanDone
  /\ args.rows = << Row(<<"G">>, <<"a">>, <<"1">>) >>
  /\ args.desired = (K_ga :> <<"2">>) @@ (K_a :> <<"1">>)
  /\ Len(ret.value) = 1 /\ ret.value[1].desired = <<"2">>

NotPropertyBacked(x) == ~IsRefForm(x.current)

\* C7: the literal-mode plan is the all-mode plan without the items whose
\* current version is a property reference, and nothing else differs.
C7_LiteralIsAllWithoutRefs ==
  /\ (PlanDone /\ args.mode = S_literal) =>
       /\ ret = Returned(SelectSeq(maven_enforce_plan(args.rows, args.desired, S_all).value,
                                   NotPropertyBacked))
       /\ \A i \in 1..Len(ret.value) : NotPropertyBacked(ret.value[i])
  /\ (PlanDone /\ args.mode = S_all) =>
       maven_enforce_plan(args.rows, args.desired, S_literal)
         = Returned(SelectSeq(ret.value, NotPropertyBacked))

\* an all-mode plan with a property-backed item and a literal one
C7_Witness ==
  /\ PlanDone /\ args.mode = S_all
  /\ Len(ret.value) = 2
  /\ ~NotPropertyBacked(ret.value[1]) /\ NotPropertyBacked(ret.value[2])

\* strictly increasing maps from plan positions to record positions
Embeddings(n, m) == {f \in [1..n -> 1..m] : \A i, j \in 1..n : i < j => f[i] < f[j]}

\* the number of records that, planned alone, give an item
RECURSIVE CountAlone(_, _, _)
CountAlone(rows, d, mode) ==
  IF rows = <<>> THEN 0
  ELSE Len(maven_enforce_plan(<<Head(rows)>>, d, mode).value) + CountAlone(Tail(rows), d, mode)

\* C8: the plan is an order-preserving image of a subsequence of the records:
\* at most one item per record, in record order, equal records not merged,
\* every item with a non-empty desired version other than its current one.
C8_OrderPreserving ==
  PlanDone =>
    /\ Len(ret.value) <= Len(args.rows)
    /\ \E f \in Embeddings(Len(ret.value), Len(args.rows)) :
         \A j \in 1..Len(ret.value) :
           /\ ret.value[j].groupId = args.rows[f[j]].groupId
           /\ ret.value[j].artifactId = args.rows[f[j]].artifactId
           /\ ret.value[j].current = Strip(args.rows[f[j]].version)
           /\ Len(maven_enforce_plan(<<args.rows[f[j]]>>, args.desired, args.mode).value) = 1
    /\ Len(ret.value) = CountAlone(args.rows, args.desired, args.mode)
    /\ \A j \in 1..Len(ret.value) :
         ret.value[j].desired # <<>> /\ ret.value[j].current # ret.value[j].desired

\* the same record twice gave two equal items
C8_Witness ==
  /\ PlanDone
  /\ Len(args.rows) = 2 /\ args.rows[1] = args.rows[2]
  /\ Len(ret.value) = 2 /\ ret.value[1] = ret.value[2]

(***************************************************************************)
(* Calls of maven_normalize_desired, and of it again on its own result.    *)
(***************************************************************************)
RawKeys ==
  { PyStr(<<"a">>), PyStr(<<"A">>), PyStr(<<" ", "a", " ">>), PyStr(<<" ">>),
    PyStr(<<"G", ":", "A">>), PyNone }

RawValues ==
  { PyNone, PyStr(<<"1">>), PyStr(<<" ", " ", "2", " ">>), PyStr(<<" ">>), PyStr(<<>>),
    PyInt(10), PyBytes(<<"1", "xFF">>) }

\* the dicts with at most n entries: pairs in insertion order, keys distinct
RawDicts(n) ==
  { PyDict(items) : items \in
      { s \in SeqsUpTo(RawKeys \X RawValues, n) :
          \A i, j \in 1..Len(s) : i # j => s[i][1] # s[j][1] } }

InitNormalize ==
  /\ pc = "call"
  /\ op = "maven_normalize_desired"
  /\ args \in [raw : RawDicts(MaxEntries) \cup {PyNone}]
  /\ ret = <<>>

MavenNormalizeDesired ==
  /\ pc = "call" /\ op = "maven_normalize_desired"
  /\ ret' = [first |-> maven_normalize_desired(args.raw)]
  /\ pc' = "done"
  /\ UNCHANGED <<op, args>>

\* the filter applied to its own result
MavenNormalizeDesiredAgain ==
  /\ pc = "done" /\ op = "maven_normalize_desired"
  /\ ret' = [first |-> ret.first, second |-> maven_normalize_desired(ret.first)]
  /\ pc' = "again"
  /\ UNCHANGED <<op, args>>

NextNormalize == MavenNormalizeDesired \/ MavenNormalizeDesiredAgain

SpecNormalize == InitNormalize /\ [][NextNormalize]_vars

\* C9: maven_normalize_desired is idempotent: normalizing a normalized mapping
\* gives the same mapping, for raw mappings with colliding keys, absent values
\* and blank keys or values too.
C9_NormalizeIdempotent ==
  (pc = "again" /\ op = "maven_normalize_desired") => DictEq(ret.second, ret.first)

\* a raw mapping whose keys "A" and " a " collide was normalized twice
C9_Witness ==
  /\ pc = "again" /\ op = "maven_normalize_desired"
  /\ args.raw = PyDict(<< <<PyStr(<<"A">>), PyStr(<<"1">>)>>,
                          <<PyStr(<<" ", "a", " ">>), PyStr(<<" ", " ", "2", " ">>)>> >>)
  /\ ret.first = PyDict(<< <<PyStr(<<"a">>), PyStr(<<"2">>)>> >>)
  /\ ret.second = ret.first

(***************************************************************************)
(* Calls of maven_dep_rows.                                                *)
(***************************************************************************)
ArtifactMatches ==
  { PyStr(<<" ", "a", " ">>),
    PyDict(<< <<<<"b">>, PyStr(<<"x">>)>>, <<<<"a">>, PyStr(<<"y">>)>> >>),
    PyDict(<<>>) }

GroupMatches == { PyStr(<<"g">>), PyNone }

VersionMatches ==
  { PyDict(<< <<<<"{", "m", "}", "v">>, PyStr(<<" ", "1", " ">>)>> >>), PyInt(2) }

MatchLists(S) == {PyList(l) : l \in SeqsUpTo(S, MaxMatches)}

InitDepRows ==
  /\ pc = "call"
  /\ op = "maven_dep_rows"
  /\ args \in [artifact_ids : MatchLists(ArtifactMatches) \cup {PyNone, PyStr(<<"a">>)},
               group_ids : MatchLists(GroupMatches) \cup {PyNone},
               versions : MatchLists(VersionMatches) \cup {PyBytes(<<"1", "xFF", " ">>)}]
  /\ ret = <<>>

MavenDepRows ==
  /\ pc = "call" /\ op = "maven_dep_rows"
  /\ ret' = maven_dep_rows(args.artifact_ids, args.group_ids, args.versions)
  /\ pc' = "done"
  /\ UNCHANGED <<op, args>>

NextDepRows == MavenDepRows

SpecDepRows == InitDepRows /\ [][NextDepRows]_vars

\* the number of strings a match list flattens to
FlatLen(matches) ==
  CASE matches.t = "none" -> 0
    [] matches.t \in {"str", "bytes"} -> 1
    [] OTHER -> Len(matches.items)

\* C10: maven_dep_rows raises when the three flattened lists differ in length
\* and returns no rows then; with equal lengths row i holds the i-th
\* artifactId, the i-th groupId and the i-th version.
C10_DepRowsAligned ==
  (pc = "done" /\ op = "maven_dep_rows") =>
    LET la == FlatLen(args.artifact_ids)
        lg == FlatLen(args.group_ids)
        lv == FlatLen(args.versions)
    IN IF la # lg \/ lg # lv \/ la # lv
       THEN ret = Raised("ValueError")
       ELSE /\ DOMAIN ret = {"value"}
            /\ Len(ret.value) = la
            /\ \A i \in 1..la :
                 /\ ret.value[i].artifactId = xml_texts(args.artifact_ids)[i]
                 /\ ret.value[i].groupId = xml_texts(args.group_ids)[i]
                 /\ ret.value[i].version = xml_texts(args.versions)[i]

\* two aligned rows were built, the second different from the first
C10_Witness ==
  /\ pc = "done" /\ op = "maven_dep_rows"
  /\ DOMAIN ret = {"value"} /\ Len(ret.value) = 2
  /\ ret.value[1] = DepRow(<<"g">>, <<"a">>, <<"1">>)
  /\ ret.value[2] = DepRow(<<>>, <<"y">>, <<"2">>)

\* lists of lengths 2, 1 and 2 were refused
C10_WitnessRagged ==
  /\ pc = "done" /\ op = "maven_dep_rows"
  /\ FlatLen(args.artifact_ids) = 2 /\ FlatLen(args.group_ids) = 1
  /\ FlatLen(args.versions) = 2
  /\ ret = Raised("ValueError")

(***************************************************************************)
(* Calls of maven_plugins, of the full filter set and of the playbooks     *)
(* copy, on documents with duplicate and version-less managed entries.     *)
(***************************************************************************)
ManagedEntries11(ns) ==
  { PluginEl(ns, PyStr(A_a), PyStr(V_1), <<>>),
    PluginEl(ns, PyStr(A_a), PyStr(V_2), <<>>),
    PluginEl(ns, PyStr(A_a), PyNone, <<>>),
    PluginEl(ns, PyStr(A_b), PyStr(Ref(N_x)), <<>>),
    PluginEl(ns, PyNone, PyStr(V_351), <<>>) }

PluginEntries11(ns) ==
  { PluginEl(ns, PyStr(A_a), PyNone, <<>>),
    PluginEl(ns, PyStr(A_a), PyStr(V_351), <<>>),
    PluginEl(ns, PyStr(A_b), PyStr(<<" ">>), <<>>),
    PluginEl(ns, PyNone, PyNone, <<>>) }

InitManagedPlugins ==
  /\ pc = "call"
  /\ op \in {"maven_plugins", "maven_plugins@playbooks"}
  /\ \E ns \in Namespaces :
       \E m \in SeqsUpTo(ManagedEntries11(ns), MaxManaged) :
         \E ps \in SeqsUpTo(PluginEntries11(ns), MaxPlugins) :
           \E props \in {<<>>, (N_x :> <<"2", ".", "0">>)} :
             args = [pom_xml |-> Document(ns, m, ps), props |-> props]
  /\ ret = <<>>

\* src/playbooks/filter_plugins/maven_filters.py maven_plugins
MavenPluginsPlaybooks ==
  /\ pc = "call" /\ op = "maven_plugins@playbooks"
  /\ ret' = maven_plugins_playbooks(args.pom_xml, args.props)
  /\ pc' = "done"
  /\ UNCHANGED <<op, args>>

NextManagedPlugins == MavenPlugins \/ MavenPluginsPlaybooks

SpecManagedPlugins == InitManagedPlugins /\ [][NextManagedPlugins]_vars

\* the <plugin> elements of the document, as Document lays them out:
\* <project> / <build> (2nd child) / <pluginManagement> / <plugins>, and
\* <project> / <build> / <plugins> (2nd child)
ManagedOf(doc) == doc.kids[2].kids[1].kids[1].kids
PluginsOf(doc) == doc.kids[2].kids[2].kids

SetMax(S) == CHOOSE x \in S : \A y \in S : y <= x

\* the artifactId-to-version table read at aid: the version of the last managed
\* entry with that artifactId and a version, "" when there is none
LastManagedVersion(doc, aid) ==
  LET m == ManagedOf(doc)
      hits == {i \in 1..Len(m) : /\ aid # <<>>
                                 /\ _first_child_text(m[i], T_artifactId) = aid
                                 /\ _first_child_text(m[i], T_version) # <<>>}
  IN IF hits = {} THEN <<>> ELSE _first_child_text(m[SetMax(hits)], T_version)

ResolvedWithManaged(doc, p, props) ==
  LET aid == _first_child_text(p, T_artifactId)
      r == resolve_version(PyStr(_first_child_text(p, T_version)),
                           PyStr(LastManagedVersion(doc, aid)), props)
  IN [artifactId |-> aid, version |-> r[1], source |-> r[2]]

ManagedClaim(ops) ==
  (pc = "done" /\ op \in ops) =>
    /\ Len(ret) = Len(PluginsOf(args.pom_xml))
    /\ \A i \in 1..Len(ret) :
         LET p == PluginsOf(args.pom_xml)[i]
             last == LastManagedVersion(args.pom_xml, _first_child_text(p, T_artifactId))
         IN /\ ret[i] = ResolvedWithManaged(args.pom_xml, p, args.props)
            /\ (_first_child_text(p, T_version) = <<>> /\ ~IsRefForm(last))
                 => ret[i].version = last

\* C11: maven_plugins resolves each plugin under build/plugins with managed set
\* to the pluginManagement entry of its artifactId, the table being built in
\* document order with the last duplicate winning; a plugin without explicit
\* version gets the version of the last managed entry of its artifactId.
\* Stated of both maven_plugins the claim is drawn from.
C11_AsClaimed == ManagedClaim({"maven_plugins", "maven_plugins@playbooks"})

\* the copy under src/playbooks leaves a managed plugin without version
C11_Divergence ==
  /\ pc = "done" /\ op = "maven_plugins@playbooks"
  /\ Len(ManagedOf(args.pom_xml)) = 1
  /\ _first_child_text(ManagedOf(args.pom_xml)[1], T_artifactId) = A_a
  /\ _first_child_text(ManagedOf(args.pom_xml)[1], T_version) = V_1
  /\ Len(ret) = 1
  /\ ret[1] = [artifactId |-> A_a, version |-> <<>>, source |-> S_none]

\* the maven_plugins of src/filter_plugins/pom_filters.py alone does as stated
C11_FullFilterSet == ManagedClaim({"maven_plugins"})

\* a plugin without version, managed twice: the full filter set gives the later
C11_LastWinsReached ==
  /\ pc = "done" /\ op = "maven_plugins"
  /\ Len(ManagedOf(args.pom_xml)) = 2
  /\ _first_child_text(ManagedOf(args.pom_xml)[1], T_version) = V_1
  /\ _first_child_text(ManagedOf(args.pom_xml)[2], T_version) = <<"2">>
  /\ Len(ret) = 1
  /\ ret[1] = [artifactId |-> A_a, version |-> <<"2">>, source |-> S_pluginManagement]

(***************************************************************************)
(* The two lookups of a desired version: maven_desired_version, and        *)
(* maven_enforce_plan on one record without current version in mode        *)
(* "all", whose plan shows the version selected for the record.            *)
(***************************************************************************)
GroupIds == Padded({<<>>, <<"G">>, <<"g">>})
ArtifactIds == Padded({<<>>, <<"a">>, <<"A">>, <<"b">>})

LookupTables ==
  DesiredTables \cup { (<<>> :> <<"2">>) @@ (K_a :> <<"1">>),
                       (K_ga :> <<" ">>) @@ (K_a :> <<" ", "2">>),
                       (K_ga :> <<" ">>) @@ (K_a :> <<>>) }

InitLookups ==
  /\ pc = "call"
  /\ \E d \in LookupTables : \E g \in GroupIds : \E a \in ArtifactIds :
       \/ /\ op = "maven_desired_version"
          /\ args = [app_map |-> d, group_id |-> g, artifact_id |-> a]
       \/ /\ op = "maven_enforce_plan"
          /\ args = [rows |-> <<Row(g, a, <<>>)>>, desired |-> d, mode |-> S_all]
  /\ ret = <<>>

MavenDesiredVersion ==
  /\ pc = "call" /\ op = "maven_desired_version"
  /\ ret' = maven_desired_version(args.app_map, args.group_id, args.artifact_id)
  /\ pc' = "done"
  /\ UNCHANGED <<op, args>>

NextLookups == MavenDesiredVersion \/ MavenEnforcePlan

SpecLookups == InitLookups /\ [][NextLookups]_vars

\* the desired version a plan shows for its only record: "" when it was skipped
SelectedIn(plan) == IF plan.value = <<>> THEN <<>> ELSE plan.value[1].desired

\* a finished lookup of either kind, as the table, the ids and the two answers
LookupDone == pc = "done"
LookupTable == IF op = "maven_desired_version" THEN args.app_map ELSE args.desired
LookupGroup == IF op = "maven_desired_version" THEN args.group_id ELSE args.rows[1].groupId
LookupArtifact ==
  IF op = "maven_desired_version" THEN args.artifact_id ELSE args.rows[1].artifactId
ByDesiredVersion ==
  IF op = "maven_desired_version" THEN ret
  ELSE maven_desired_version(LookupTable, LookupGroup, LookupArtifact)
ByEnforcePlan ==
  IF op = "maven_enforce_plan" THEN SelectedIn(ret)
  ELSE SelectedIn(maven_enforce_plan(<<Row(LookupGroup, LookupArtifact, <<>>)>>,
                                     LookupTable, S_all))

NoEmptyKey == <<>> \notin DOMAIN LookupTable

LookupComposite == CompositeKey(Row(LookupGroup, LookupArtifact, <<>>))
LookupArtifactKey == ArtifactKey(Row(LookupGroup, LookupArtifact, <<>>))

\* the composite key applies and is in the table with an empty or blank value,
\* while the artifact-only key has a value that is not
BlankCompositeShadows ==
  /\ HasComposite(Row(LookupGroup, LookupArtifact, <<>>))
  /\ LookupComposite \in DOMAIN LookupTable
  /\ Strip(LookupTable[LookupComposite]) = <<>>
  /\ LookupArtifactKey \in DOMAIN LookupTable
  /\ Strip(LookupTable[LookupArtifactKey]) # <<>>

\* C12 (as claimed): for every desired table with string values and every
\* (groupId, artifactId), the version maven_enforce_plan selects for the record
\* equals maven_desired_version, a blank composite value included.  Stated for
\* tables without an empty key.
C12_AsClaimed ==
  (LookupDone /\ NoEmptyKey) => ByEnforcePlan = ByDesiredVersion

\* C12: the two desired-version lookups agree on every table with string values
\* and non-empty keys, except when the composite key is in the table with an
\* empty or blank value while the artifact-only key has a non-empty one: then
\* maven_enforce_plan selects nothing and maven_desired_version gives the
\* trimmed artifact-only value.
C12_LookupsAgree ==
  (LookupDone /\ NoEmptyKey) =>
    IF BlankCompositeShadows
    THEN /\ ByEnforcePlan = <<>>
         /\ ByDesiredVersion = Strip(LookupTable[LookupArtifactKey])
    ELSE ByEnforcePlan = ByDesiredVersion

\* both keys in the table with values, and the call answered the composite one
C12_Witness ==
  /\ LookupDone /\ op = "maven_desired_version"
  /\ args.app_map = (K_ga :> <<"2">>) @@ (K_a :> <<"1">>)
  /\ args.group_id = <<"G", " ">> /\ args.artifact_id = <<" ", "a">>
  /\ ret = <<"2">>

====
